---- MODULE Spec2Model ----
(***************************************************************************)
(* Text-classification microservice: the classifier component              *)
(* (src/app/model.py, TextClassificationModel) and the HTTP handlers in    *)
(* front of it (src/app/main.py).                                          *)
(*                                                                         *)
(* A text is represented by its shape: `lead` whitespace characters, then  *)
(* a core of `core` characters that starts and ends with a non-whitespace  *)
(* character, then `trail` whitespace characters.  A text made only of     *)
(* whitespace has core = 0 and trail = 0.  len() and str.strip() are       *)
(* computed on that shape, so the real limits (5000 characters, 100 items) *)
(* are kept as they are in the code.                                       *)
(***************************************************************************)
EXTENDS Integers, Sequences, FiniteSets

VARIABLES artifact, model, is_loaded, phase, loadReturns, resp

vars == <<artifact, model, is_loaded, phase, loadReturns, resp>>

(***************************************************************************)
(* Program constants                                                       *)
(***************************************************************************)
MinLength == 1
MaxLength == 5000
MinItems == 1
MaxItems == 100
MaxFeatures == 1000

(***************************************************************************)
(* Bounds of the model                                                     *)
(***************************************************************************)
\* most whitespace characters put on one side of a text
MaxPad == 1
\* most explicitly chosen items at the front of a batch (the rest is filler)
MaxHead == 2
\* persisted pipelines other than the bootstrap one are numbered 1..NumPipelines
NumPipelines == 1
\* probabilities are counted in units of 1/ProbScale
ProbScale == 4
\* most direct calls of load_model() on one classifier object
MaxLoadCalls == 2

(***************************************************************************)
(* Texts                                                                   *)
(***************************************************************************)
Text(l, c, t) == [lead |-> l, core |-> c, trail |-> t]

\* len(text)
TextLen(t) == t.lead + t.core + t.trail

\* text.strip(): surrounding whitespace removed, the core kept
Strip(t) == Text(0, t.core, 0)

\* `not text` / `not text.strip()`: the empty string is falsy
IsEmpty(t) == TextLen(t) = 0

\* whitespace-only texts (and the empty one) around both ends of the range
BlankTexts == {Text(n, 0, 0) : n \in (0 .. MaxPad) \cup {MaxLength, MaxLength + 1}}

\* core lengths at both ends of the permitted range
CoreLens == {1} \cup ((MaxLength - 2 * MaxPad) .. (MaxLength + 1))

Texts ==
    BlankTexts \cup {Text(l, c, t) : l \in 0 .. MaxPad, c \in CoreLens, t \in 0 .. MaxPad}

(***************************************************************************)
(* Objects: what the artifact file holds and what self.model refers to.    *)
(* joblib.load returns whatever object was pickled and load_model keeps    *)
(* it; predict, predict_batch and get_model_info then use it through its   *)
(* attributes only (predict, predict_proba, named_steps).                  *)
(*   kind "pipeline": a fitted TF-IDF + LogisticRegression pipeline; id 0  *)
(*     is the one _create_example_model trains, 1.. are other fitted ones  *)
(*   kind "pipeline_old": such a pipeline whose 'tfidf' step has no        *)
(*     get_feature_names_out (scikit-learn before 1.0)                     *)
(*   kind "pipeline_renamed": such a pipeline with no step named 'tfidf'   *)
(*   kind "unfitted": the Pipeline built at model.py:60 before fit()       *)
(*   kind "duck": any other object, described by what its attributes do:   *)
(*     call  "AttributeError": it has no predict attribute                 *)
(*           "ValueError": its predict raises ValueError                   *)
(*           "returns": predict returns the sequence preds and             *)
(*              predict_proba the sequence rows, whatever the texts are;   *)
(*              preds holds class numbers, rows holds pairs                *)
(*     steps "AttributeError": it has no named_steps attribute             *)
(*           "TypeError": named_steps is None                              *)
(*           "KeyError": named_steps has no 'tfidf' entry                  *)
(*           "unknown": named_steps['tfidf'] is an object without          *)
(*              get_feature_names_out                                      *)
(*   kind "None":    Python's None                                         *)
(*   kind "corrupt": a file joblib.load cannot read (artifact only)        *)
(*   kind "absent":  no file at model_path (artifact only)                 *)
(***************************************************************************)
Obj(k, i) == [kind |-> k, id |-> i, call |-> "", preds |-> <<>>, rows |-> <<>>, steps |-> ""]

Duck(call, preds, rows, steps) ==
    [kind |-> "duck", id |-> 0, call |-> call, preds |-> preds, rows |-> rows, steps |-> steps]

NoneObj == Obj("None", 0)

\* the pipeline _create_example_model fits; sklearn_old: the installed
\* TfidfVectorizer has no get_feature_names_out
BootstrapPipeline(sklearn_old) == Obj(IF sklearn_old THEN "pipeline_old" ELSE "pipeline", 0)

\* objects with the predict / predict_proba of a fitted pipeline
IsPipeline(m) == m.kind \in {"pipeline", "pipeline_old", "pipeline_renamed"}

\* a probability row that favours class 0
RowNegative == <<ProbScale - 1, 1>>

\* the objects other than pipelines that the artifact may hold
Ducks ==
    {Duck("AttributeError", <<>>, <<>>, s) :
        s \in {"AttributeError", "TypeError", "KeyError", "unknown"}}
        \cup {Duck("ValueError", <<>>, <<>>, "AttributeError"),
              Duck("returns", <<1>>, <<RowNegative>>, "AttributeError"),
              Duck("returns", <<0, 1>>, <<RowNegative, RowNegative>>, "AttributeError"),
              Duck("returns", <<2>>, <<RowNegative>>, "AttributeError"),
              Duck("returns", <<1>>, <<>>, "unknown")}

Artifacts ==
    {Obj("absent", 0), Obj("corrupt", 0), NoneObj, Obj("pipeline_renamed", 0)}
        \cup {Obj(k, i) : k \in {"pipeline", "pipeline_old"}, i \in 0 .. NumPipelines}
        \cup Ducks

\* what can go wrong inside one load_model() call
Faults == {"none", "read", "train", "persist", "persist_partial"}

(***************************************************************************)
(* The fitted pipeline (scikit-learn, called at model.py:95-96, 130-131).  *)
(* predict_proba gives one row [P(class 0), P(class 1)] per text, and      *)
(* LogisticRegression.predict gives class 1 exactly when the decision      *)
(* function is positive, that is when P(class 1) > P(class 0).  The        *)
(* probability depends on the pipeline and on the whole text, surrounding  *)
(* whitespace included.                                                    *)
(***************************************************************************)
Proba1(id, t) == (id + t.core + 2 * t.lead + 3 * t.trail) % (ProbScale + 1)

PipelinePredictProba(id, texts) ==
    [i \in 1 .. Len(texts) |-> <<ProbScale - Proba1(id, texts[i]), Proba1(id, texts[i])>>]

PipelinePredict(id, texts) ==
    [i \in 1 .. Len(texts) |->
        IF Proba1(id, texts[i]) > ProbScale - Proba1(id, texts[i]) THEN 1 ELSE 0]

\* number of TF-IDF features of a fitted pipeline, at most max_features
FeatureCount(id) == 1 + ((id * 7 + 60) % MaxFeatures)

(***************************************************************************)
(* TextClassificationModel                                                 *)
(***************************************************************************)
\* label_map = {0: "negativo", 1: "positivo"}
label_map == [c \in {0, 1} |-> IF c = 0 THEN "negativo" ELSE "positivo"]

\* max(probabilities) over one row
RowMax(row) == IF row[1] >= row[2] THEN row[1] ELSE row[2]

\* the result dict built at model.py:105-113 and 140-148
MakeResult(text, prediction, row) ==
    [text |-> text,
     prediction |-> label_map[prediction],
     confidence |-> RowMax(row),
     probabilities |-> [negativo |-> row[1], positivo |-> row[2]]]

Raised(e) == [kind |-> e, results |-> <<>>]

Returned(rs) == [kind |-> "ok", results |-> rs]

\* a call on self.model: the exception it raised, or the value it returned
CallRaised(e) == [error |-> e, value |-> <<>>]

CallReturned(v) == [error |-> "", value |-> v]

\* what looking up and calling an attribute of a non-pipeline object raises
ModelCallError(m) ==
    CASE m.kind = "unfitted" -> "NotFittedError"
      [] m.kind = "duck" -> m.call
      [] OTHER -> "AttributeError"

\* self.model.predict(texts)
ModelPredict(m, texts) ==
    IF IsPipeline(m) THEN CallReturned(PipelinePredict(m.id, texts))
    ELSE IF m.kind = "duck" /\ m.call = "returns" THEN CallReturned(m.preds)
    ELSE CallRaised(ModelCallError(m))

\* self.model.predict_proba(texts)
ModelPredictProba(m, texts) ==
    IF IsPipeline(m) THEN CallReturned(PipelinePredictProba(m.id, texts))
    ELSE IF m.kind = "duck" /\ m.call = "returns" THEN CallReturned(m.rows)
    ELSE CallRaised(ModelCallError(m))

\* predict(text): the two calls are indexed with [0] as they return, then
\* label_map is read
predict(m, loaded, text) ==
    IF ~loaded \/ m = NoneObj
    THEN Raised("ValueError")
    ELSE LET predictions == ModelPredict(m, <<text>>)
             probabilities == ModelPredictProba(m, <<text>>)
         IN IF predictions.error # "" THEN Raised(predictions.error)
            ELSE IF Len(predictions.value) < 1 THEN Raised("IndexError")
            ELSE IF probabilities.error # "" THEN Raised(probabilities.error)
            ELSE IF Len(probabilities.value) < 1 THEN Raised("IndexError")
            ELSE IF predictions.value[1] \notin DOMAIN label_map THEN Raised("KeyError")
            ELSE Returned(<<MakeResult(text, predictions.value[1], probabilities.value[1])>>)

\* what building result i raises inside the loop of predict_batch, "" if
\* nothing: label_map[predictions[i]] is read first, then probabilities[i]
ItemError(predictions, probabilities, i) ==
    IF i > Len(predictions) THEN "IndexError"
    ELSE IF predictions[i] \notin DOMAIN label_map THEN "KeyError"
    ELSE IF i > Len(probabilities) THEN "IndexError"
    ELSE ""

\* the loop of predict_batch over enumerate(texts): result i is built from
\* texts[i], predictions[i] and probabilities[i], and appended in that
\* order; the first item that cannot be built raises out of the call
BatchLoop(texts, predictions, probabilities) ==
    LET bad == {i \in 1 .. Len(texts) : ItemError(predictions, probabilities, i) # ""}
    IN IF bad = {}
       THEN Returned([i \in 1 .. Len(texts) |->
                         MakeResult(texts[i], predictions[i], probabilities[i])])
       ELSE Raised(ItemError(predictions, probabilities,
                             CHOOSE i \in bad : \A j \in bad : i <= j))

\* predict_batch(texts)
predict_batch(m, loaded, texts) ==
    IF ~loaded \/ m = NoneObj
    THEN Raised("ValueError")
    ELSE LET predictions == ModelPredict(m, texts)
             probabilities == ModelPredictProba(m, texts)
         IN IF predictions.error # "" THEN Raised(predictions.error)
            ELSE IF probabilities.error # "" THEN Raised(probabilities.error)
            ELSE BatchLoop(texts, predictions.value, probabilities.value)

\* the "features" entry of get_model_info for an object with a 'tfidf' step:
\* the feature count if the step has get_feature_names_out, else "unknown"
Features(m) == IF m.kind = "pipeline" THEN FeatureCount(m.id) ELSE "unknown"

\* what evaluating self.model.named_steps['tfidf'] and its
\* get_feature_names_out() raises, "" if nothing
InfoError(m) ==
    CASE m.kind \in {"pipeline", "pipeline_old"} -> ""
      [] m.kind = "pipeline_renamed" -> "KeyError"
      [] m.kind = "unfitted" -> "NotFittedError"
      [] m.kind = "duck" -> IF m.steps = "unknown" THEN "" ELSE m.steps
      [] OTHER -> "AttributeError"

\* get_model_info without the is_loaded guard: it reads self.model at once
get_model_infoUnguarded(m, loaded) ==
    IF InfoError(m) = ""
    THEN [kind |-> "ok", status |-> "loaded",
          model_type |-> "TF-IDF + Logistic Regression",
          features |-> Features(m),
          classes |-> <<"negativo", "positivo">>]
    ELSE [kind |-> InfoError(m), status |-> "", model_type |-> "",
          features |-> 0, classes |-> <<>>]

\* get_model_info(): the dict returned, or the exception raised while the
\* "features" entry is evaluated on self.model
get_model_info(m, loaded) ==
    IF ~loaded
    THEN [kind |-> "ok", status |-> "not_loaded", model_type |-> "",
          features |-> 0, classes |-> <<>>]
    ELSE IF InfoError(m) = ""
    THEN [kind |-> "ok", status |-> "loaded",
          model_type |-> "TF-IDF + Logistic Regression",
          features |-> Features(m),
          classes |-> <<"negativo", "positivo">>]
    ELSE [kind |-> InfoError(m), status |-> "", model_type |-> "",
          features |-> 0, classes |-> <<>>]

\* the classifier after a call, and what the call returned
Loaded(m, loaded, art, ret) == [model |-> m, is_loaded |-> loaded, artifact |-> art, ret |-> ret]

\* _create_example_model(), entered when no artifact exists: build the
\* pipeline, fit it, persist it, set is_loaded; an exception at any step
\* leaves what the earlier steps assigned and makes load_model return False
create_example_model(m, loaded, art, fault, sklearn_old) ==
    IF fault = "train"
    THEN Loaded(Obj("unfitted", 0), loaded, art, FALSE)
    ELSE IF fault = "persist"
    THEN Loaded(BootstrapPipeline(sklearn_old), loaded, art, FALSE)
    ELSE IF fault = "persist_partial"
    THEN Loaded(BootstrapPipeline(sklearn_old), loaded, Obj("corrupt", 0), FALSE)
    ELSE Loaded(BootstrapPipeline(sklearn_old), TRUE, BootstrapPipeline(sklearn_old), TRUE)

\* load_model()
load_model(m, loaded, art, fault, sklearn_old) ==
    IF art.kind # "absent"
    THEN IF art.kind = "corrupt" \/ fault = "read"
         THEN Loaded(m, loaded, art, FALSE)
         ELSE Loaded(art, TRUE, art, TRUE)
    ELSE create_example_model(m, loaded, art, fault, sklearn_old)

(***************************************************************************)
(* Request validation (the pydantic models of main.py).  The Field         *)
(* constraints are checked before the @validator runs.                     *)
(***************************************************************************)
Invalid(e) == [ok |-> FALSE, error |-> e, texts |-> <<>>]

Valid(ts) == [ok |-> TRUE, error |-> "", texts |-> ts]

\* TextInput with the upper bound off by one (5000 characters rejected)
TextInputOffByOne(text) ==
    IF TextLen(text) < MinLength
    THEN Invalid("min_length")
    ELSE IF TextLen(text) >= MaxLength
    THEN Invalid("max_length")
    ELSE IF IsEmpty(Strip(text))
    THEN Invalid("El texto no puede estar vacio")
    ELSE Valid(<<Strip(text)>>)

\* TextInput whose validator returns v instead of v.strip()
TextInputUnstripped(text) ==
    IF TextLen(text) < MinLength
    THEN Invalid("min_length")
    ELSE IF TextLen(text) > MaxLength
    THEN Invalid("max_length")
    ELSE IF IsEmpty(Strip(text))
    THEN Invalid("El texto no puede estar vacio")
    ELSE Valid(<<text>>)

\* TextInput
TextInput(text) ==
    IF TextLen(text) < MinLength
    THEN Invalid("min_length")
    ELSE IF TextLen(text) > MaxLength
    THEN Invalid("max_length")
    ELSE IF IsEmpty(Strip(text))
    THEN Invalid("El texto no puede estar vacio")
    ELSE Valid(<<Strip(text)>>)

\* the checks validate_texts makes on one element, in the order it makes them
ElementError(text) ==
    IF IsEmpty(Strip(text))
    THEN "Los textos no pueden estar vacios"
    ELSE IF TextLen(text) > MaxLength
    THEN "Los textos no pueden exceder 5000 caracteres"
    ELSE ""

\* validate_texts skipping the offending elements instead of raising
validate_textsSkipping(v) ==
    IF Len(v) = 0
    THEN Invalid("La lista de textos no puede estar vacia")
    ELSE Valid(SelectSeq([i \in 1 .. Len(v) |-> Strip(v[i])],
                         LAMBDA t : ElementError(t) = ""))

\* the loop of validate_texts: the first offending element raises, otherwise
\* the stripped elements are collected in order
validate_texts(v) ==
    LET bad == {i \in 1 .. Len(v) : ElementError(v[i]) # ""} IN
    IF Len(v) = 0
    THEN Invalid("La lista de textos no puede estar vacia")
    ELSE IF bad = {}
    THEN Valid([i \in 1 .. Len(v) |-> Strip(v[i])])
    ELSE Invalid(ElementError(v[CHOOSE i \in bad : \A j \in bad : i <= j]))

\* BatchTextInput
BatchTextInput(texts) ==
    IF Len(texts) < MinItems
    THEN Invalid("min_items")
    ELSE IF Len(texts) > MaxItems
    THEN Invalid("max_items")
    ELSE validate_texts(texts)

(***************************************************************************)
(* Handlers.  A response records the request (op, input), the HTTP status, *)
(* how often and with what argument the classifier's predict /             *)
(* predict_batch was called, and the body.                                 *)
(***************************************************************************)
NoInfo == [kind |-> "", status |-> "", model_type |-> "", features |-> 0, classes |-> <<>>]

NoResp ==
    [op |-> "none", status |-> 0, input |-> <<>>, error |-> "", calls |-> 0,
     arg |-> <<>>, results |-> <<>>, total_processed |-> 0,
     health |-> "", model_loaded |-> FALSE, info |-> NoInfo]

\* the exception classes `except ValueError` catches among those the
\* classifier call raises: ValueError and its subclasses (scikit-learn's
\* NotFittedError derives from ValueError and AttributeError)
ValueErrorClasses == {"ValueError", "NotFittedError"}

\* HTTP status of an exception that left the classifier call: the handlers'
\* `except ValueError` branch answers 400, `except Exception` answers 500
PredictionStatus(kind) ==
    CASE kind = "ok" -> 200
      [] kind \in ValueErrorClasses -> 400
      [] OTHER -> 500

\* POST /predict
predict_text(m, loaded, text) ==
    LET input_data == TextInput(text) IN
    IF ~input_data.ok
    THEN [NoResp EXCEPT !.op = "predict", !.input = <<text>>, !.status = 422,
                        !.error = input_data.error]
    ELSE LET result == predict(m, loaded, input_data.texts[1]) IN
         [NoResp EXCEPT !.op = "predict", !.input = <<text>>,
                        !.calls = 1, !.arg = input_data.texts,
                        !.status = PredictionStatus(result.kind),
                        !.error = IF result.kind = "ok" THEN "" ELSE result.kind,
                        !.results = result.results]

\* POST /predict/batch
predict_batch_endpoint(m, loaded, texts) ==
    LET input_data == BatchTextInput(texts) IN
    IF ~input_data.ok
    THEN [NoResp EXCEPT !.op = "batch", !.input = texts, !.status = 422,
                        !.error = input_data.error]
    ELSE LET results == predict_batch(m, loaded, input_data.texts) IN
         [NoResp EXCEPT !.op = "batch", !.input = texts,
                        !.calls = 1, !.arg = input_data.texts,
                        !.status = PredictionStatus(results.kind),
                        !.error = IF results.kind = "ok" THEN "" ELSE results.kind,
                        !.results = results.results,
                        !.total_processed = Len(results.results)]

\* GET /health
health_check(m, loaded) ==
    LET model_info == get_model_info(m, loaded)
        model_loaded == model_info.status = "loaded"
    IN IF model_info.kind # "ok"
       THEN [NoResp EXCEPT !.op = "health", !.status = 503, !.error = model_info.kind]
       ELSE [NoResp EXCEPT !.op = "health", !.status = 200,
                           !.health = IF model_loaded THEN "healthy" ELSE "unhealthy",
                           !.model_loaded = model_loaded,
                           !.info = model_info]

\* GET /model/info
get_model_info_endpoint(m, loaded) ==
    LET info == get_model_info(m, loaded) IN
    IF info.kind # "ok"
    THEN [NoResp EXCEPT !.op = "info", !.status = 500, !.error = info.kind]
    ELSE [NoResp EXCEPT !.op = "info", !.status = 200, !.info = info]

(***************************************************************************)
(* Requests the model sends                                                *)
(***************************************************************************)
ElemPlain == Text(0, 1, 0)

ElemPadded == Text(MaxPad, MaxLength - 2 * MaxPad, MaxPad)

ElemBlank == Text(MaxPad, 0, 0)

ElemTooLong == Text(MaxPad, MaxLength - 2 * MaxPad + 1, MaxPad)

BatchElems == {ElemPlain, ElemPadded, ElemBlank, ElemTooLong}

Filler == Text(0, 2, MaxPad)

Heads == UNION {[1 .. n -> BatchElems] : n \in 0 .. MaxHead}

FillCounts == {0} \cup ((MaxItems - MaxHead) .. (MaxItems - 1))

\* n fillers, then the chosen items
Batch(n, head) == [i \in 1 .. n |-> Filler] \o head

Batches == {Batch(n, head) : n \in FillCounts, head \in Heads}

ShortBatches == {Batch(0, head) : head \in Heads}

(***************************************************************************)
(* State machine                                                           *)
(***************************************************************************)
\* model.py:173 builds the classifier; nothing has been loaded or served
Init ==
    /\ artifact \in Artifacts
    /\ model = NoneObj
    /\ is_loaded = FALSE
    /\ phase = "Uninitialized"
    /\ loadReturns = <<>>
    /\ resp = NoResp

\* one call of model_instance.load_model(); loadReturns keeps what each call
\* returned
CallLoad(fault, sklearn_old, ready, failed) ==
    LET o == load_model(model, is_loaded, artifact, fault, sklearn_old) IN
    /\ model' = o.model
    /\ is_loaded' = o.is_loaded
    /\ artifact' = o.artifact
    /\ loadReturns' = Append(loadReturns, o.ret)
    /\ phase' = IF o.ret THEN ready ELSE failed
    /\ UNCHANGED resp

\* lifespan startup: load the model, raise RuntimeError unless it succeeded
lifespan ==
    /\ phase = "Uninitialized"
    /\ \E fault \in Faults, sklearn_old \in BOOLEAN :
          CallLoad(fault, sklearn_old, "Ready", "Failed")

Respond(r) ==
    /\ resp' = r
    /\ UNCHANGED <<artifact, model, is_loaded, phase, loadReturns>>

\* the server accepts requests once the lifespan startup has completed
ServePredict == phase = "Ready" /\ \E text \in Texts : Respond(predict_text(model, is_loaded, text))

ServeBatch ==
    phase = "Ready" /\ \E texts \in Batches : Respond(predict_batch_endpoint(model, is_loaded, texts))

ServeHealth == phase = "Ready" /\ Respond(health_check(model, is_loaded))

ServeInfo == phase = "Ready" /\ Respond(get_model_info_endpoint(model, is_loaded))

Next == lifespan \/ ServePredict \/ ServeBatch \/ ServeHealth \/ ServeInfo

Spec == Init /\ [][Next]_vars

(***************************************************************************)
(* The same objects driven without the lifespan: load_model() and the      *)
(* handlers called directly on the module-level classifier, in any order.  *)
(***************************************************************************)
DirectLoad ==
    /\ Len(loadReturns) < MaxLoadCalls
    /\ \E fault \in Faults, sklearn_old \in BOOLEAN :
          CallLoad(fault, sklearn_old, phase, phase)

DirectPredict == \E text \in Texts : Respond(predict_text(model, is_loaded, text))

DirectBatch == \E texts \in ShortBatches : Respond(predict_batch_endpoint(model, is_loaded, texts))

DirectHealth == Respond(health_check(model, is_loaded))

DirectInfo == Respond(get_model_info_endpoint(model, is_loaded))

DirectNext == DirectLoad \/ DirectPredict \/ DirectBatch \/ DirectHealth \/ DirectInfo

SpecDirect == Init /\ [][DirectNext]_vars

(***************************************************************************)
(* Properties                                                              *)
(***************************************************************************)
LoadCalls == Len(loadReturns)

EverSucceeded == \E i \in 1 .. Len(loadReturns) : loadReturns[i]

Handled == resp.op # "none"

\* the classifier is ready: the condition predict() itself tests
ClassifierReady == is_loaded /\ model # NoneObj

\* C1 (Spec): load_model() runs exactly once, during startup and before any
\* handler; a failed load leaves the service Failed with no request ever
\* handled; so whenever a request has been handled the service is Ready and
\* the classifier is loaded (is_loaded true, model present).
C1_ServiceReadiness ==
    /\ LoadCalls <= 1
    /\ (phase = "Uninitialized" <=> LoadCalls = 0)
    /\ (phase = "Ready" => loadReturns = <<TRUE>>)
    /\ (phase = "Failed" => loadReturns = <<FALSE>> /\ ~Handled)
    /\ (Handled => phase = "Ready" /\ LoadCalls = 1 /\ ClassifierReady)

\* C2 (SpecDirect): when POST /predict or POST /predict/batch reaches the
\* classifier with a valid body while the classifier is not ready, so that
\* it raises its not-ready error, the response status is 500 and never 400.
C2_NotReadyIsInternalError ==
    (/\ resp.op \in {"predict", "batch"}
     /\ resp.calls = 1
     /\ ~ClassifierReady
     /\ resp.error = "ValueError")
        => (resp.status = 500 /\ resp.status # 400)

\* C3 (Spec): POST /predict accepts a text exactly when its untrimmed length
\* is in 1..5000 and it is non-empty after trimming; the length bound is
\* checked before the emptiness of the trimmed text; an accepted text reaches
\* Classifier.predict once, trimmed; a rejected one never reaches it.
C3_SingleTextValidation ==
    resp.op = "predict" =>
        LET text == resp.input[1]
            accepted == resp.status # 422
        IN /\ accepted <=> (/\ TextLen(text) >= 1
                            /\ TextLen(text) <= 5000
                            /\ TextLen(Strip(text)) > 0)
           /\ accepted => (resp.calls = 1 /\ resp.arg = <<Strip(text)>>)
           /\ ~accepted => (resp.calls = 0 /\ resp.arg = <<>> /\ resp.results = <<>>)
           /\ TextLen(text) > 5000 => resp.error = "max_length"
           /\ TextLen(text) = 0 => resp.error = "min_length"

\* a padded text of exactly 5000 characters was accepted and classified
C3_Witness ==
    /\ resp.op = "predict"
    /\ resp.status = 200
    /\ TextLen(resp.input[1]) = 5000
    /\ resp.input[1].lead > 0
    /\ resp.arg = <<Strip(resp.input[1])>>

\* what the caller sees of a response to POST /predict
Outcome(r) == <<r.status, r.results>>

\* C4 as stated (Spec): whenever the trimmed form of the text is within
\* 1..5000 characters, classifying the padded text has the same outcome as
\* classifying its trimmed form.
C4_TrimIdempotenceAsStated ==
    (resp.op = "predict" /\ TextLen(Strip(resp.input[1])) \in 1 .. 5000)
        => Outcome(resp) = Outcome(predict_text(model, is_loaded, Strip(resp.input[1])))

\* C4 amended (Spec): whenever the padded text itself is at most 5000
\* characters long and its trimmed form is non-empty, classifying the padded
\* text has the same outcome (status, result, returned text) as classifying
\* its trimmed form.
C4_TrimIdempotence ==
    (/\ resp.op = "predict"
     /\ TextLen(resp.input[1]) <= 5000
     /\ TextLen(Strip(resp.input[1])) >= 1)
        => Outcome(resp) = Outcome(predict_text(model, is_loaded, Strip(resp.input[1])))

\* a text padded on both sides was classified and came back trimmed
C4_Witness ==
    /\ resp.op = "predict"
    /\ resp.status = 200
    /\ resp.input[1].lead > 0
    /\ resp.input[1].trail > 0
    /\ resp.results[1].text = Strip(resp.input[1])

\* the single-text rule applied to one element of a batch
ElementValid(text) == TextLen(Strip(text)) > 0 /\ TextLen(text) <= 5000

\* C5 (Spec): POST /predict/batch is rejected when the list has 0 or more
\* than 100 items or when any element is empty after trimming or longer than
\* 5000 characters; then nothing is returned and Classifier.predict_batch is
\* not called; otherwise predict_batch is called once with all the trimmed
\* texts in order.
C5_BatchAllOrNothing ==
    resp.op = "batch" =>
        LET texts == resp.input
            bad == \/ Len(texts) = 0
                   \/ Len(texts) > 100
                   \/ \E i \in 1 .. Len(texts) : ~ElementValid(texts[i])
        IN /\ bad => (/\ resp.status = 422
                      /\ resp.calls = 0
                      /\ resp.results = <<>>
                      /\ resp.total_processed = 0)
           /\ ~bad => (/\ resp.calls = 1
                       /\ resp.arg = [i \in 1 .. Len(texts) |-> Strip(texts[i])])

\* a batch of exactly 100 items, some of them padded, went to the classifier
C5_Witness ==
    /\ resp.op = "batch"
    /\ Len(resp.input) = 100
    /\ resp.calls = 1
    /\ resp.status = 200
    /\ \E i \in 1 .. 100 : resp.input[i] # Strip(resp.input[i])

\* C6 (Spec): a successful batch response has one result per input text, in
\* input order, total_processed equal to the number of texts, and result i
\* equal to the result POST /predict gives for text i on the same loaded
\* object.
C6_BatchSingleConsistency ==
    (resp.op = "batch" /\ resp.status = 200) =>
        /\ Len(resp.results) = Len(resp.input)
        /\ resp.total_processed = Len(resp.input)
        /\ \A i \in 1 .. Len(resp.input) :
              LET single == predict_text(model, is_loaded, resp.input[i])
              IN single.status = 200 /\ resp.results[i] = single.results[1]

Labels == {"negativo", "positivo"}

\* C7 (Spec): every result returned by predict or predict_batch
\* has probabilities over exactly negativo and positivo, a confidence equal
\* to the larger of the two, and a predicted label that holds that maximum.
C7_ResultInvariant ==
    \A i \in 1 .. Len(resp.results) :
        LET r == resp.results[i] IN
        /\ DOMAIN r.probabilities = Labels
        /\ r.prediction \in Labels
        /\ \A l \in Labels : r.probabilities[l] <= r.confidence
        /\ r.probabilities[r.prediction] = r.confidence

\* C8 (SpecDirect): the first load_model() on a fresh classifier returns
\* True exactly when it leaves the classifier ready (is_loaded true, model
\* present, artifact present at the path): it loads a readable artifact,
\* trains and persists the bootstrap model when none exists, and on every
\* failure returns False with the classifier not loaded.
C8_LoadContract ==
    [][(LoadCalls = 0 /\ LoadCalls' = 1) =>
          /\ loadReturns'[1] <=> (/\ is_loaded'
                                  /\ model' # NoneObj
                                  /\ artifact'.kind \notin {"absent", "corrupt"})
          /\ ~loadReturns'[1] => ~is_loaded'
          /\ (loadReturns'[1] /\ artifact.kind = "absent")
                => (\E sklearn_old \in BOOLEAN :
                      /\ model' = BootstrapPipeline(sklearn_old)
                      /\ artifact' = BootstrapPipeline(sklearn_old))
          /\ (loadReturns'[1] /\ artifact.kind # "absent")
                => (model' = artifact /\ artifact' = artifact)]_vars

\* C9 (SpecDirect): in every classifier state, a health response reports
\* model_loaded exactly when get_model_info reports status loaded and
\* healthy exactly when model_loaded; while the model has not been loaded
\* health() returns normally with unhealthy and model_loaded false.
C9_Health ==
    LET h == health_check(model, is_loaded)
        info == get_model_info(model, is_loaded)
    IN /\ h.status = 200 =>
            /\ h.model_loaded <=> (info.kind = "ok" /\ info.status = "loaded")
            /\ h.health = "healthy" <=> h.model_loaded
            /\ h.health \in {"healthy", "unhealthy"}
       /\ ~is_loaded => (h.status = 200 /\ h.health = "unhealthy" /\ ~h.model_loaded)
       /\ (resp.op = "health" /\ resp.status = 200) =>
            /\ resp.model_loaded <=> resp.info.status = "loaded"
            /\ resp.health = "healthy" <=> resp.model_loaded
            /\ resp.health \in {"healthy", "unhealthy"}

\* health was asked after a failed load and answered unhealthy
C9_Witness ==
    /\ resp.op = "health"
    /\ resp.status = 200
    /\ resp.health = "unhealthy"
    /\ ~resp.model_loaded
    /\ ~is_loaded
    /\ loadReturns = <<FALSE>>

\* C10 (SpecDirect): get_model_info() never fails; it reports not_loaded in
\* every state before a load_model() has succeeded, and loaded with the
\* model type, a feature count (or "unknown" when the vectoriser cannot
\* tell it) and classes [negativo, positivo] in every state after one has.
C10_InfoNeverFails ==
    LET info == get_model_info(model, is_loaded) IN
    /\ info.kind = "ok"
    /\ ~EverSucceeded => info.status = "not_loaded"
    /\ EverSucceeded => (/\ info.status = "loaded"
                         /\ info.model_type = "TF-IDF + Logistic Regression"
                         /\ IF model.kind \in {"pipeline_old", "duck"}
                            THEN info.features = "unknown"
                            ELSE info.features \in 1 .. MaxFeatures
                         /\ info.classes = <<"negativo", "positivo">>)

====
